---- MODULE Spec2Model ----
(***************************************************************************)
(* Model of wordgrid.py: the placement routine fill_grid_from_wordlist,    *)
(* the validator validate, the hint search show_hint and the command loop  *)
(* of main.  A word is a sequence of one-character strings, a wordlist     *)
(* entry is <<word, direction>>, the grid is indexed grid[y][x] as in the  *)
(* source.                                                                 *)
(***************************************************************************)
EXTENDS Integers, Sequences, FiniteSets, TLC

VARIABLES seed, dictionary, wordlist, cmd, temp_wordlist, result, placed,
          hintOut, running

vars == <<seed, dictionary, wordlist, cmd, temp_wordlist, result, placed,
          hintOut, running>>

(* ------------------------------ Settings ------------------------------- *)
grid_width == 10
grid_height == 10
filler == "."
HintCap == 20

(* ------------------------------- bounds -------------------------------- *)
MaxChain == 3
MaxProbeLen == 2

(* ------------------------------- words --------------------------------- *)
A1   == <<"A">>
APE  == <<"A","P","E">>
EPA  == <<"E","P","A">>
ELF  == <<"E","L","F">>
AREA == <<"A","R","E","A">>
APT  == <<"A","P","T">>
APEX == <<"A","P","E","X">>
AWAY == <<"A","W","A","Y">>
ANT  == <<"A","N","T">>
LONG == <<"A","B","B","R","E","V","I","A","T","E","D">>
ABSOLUTELY == <<"A","B","S","O","L","U","T","E","L","Y">>
APERTUR == <<"A","P","E","R","T","U","R">>
ANTIQUE == <<"A","N","T","I","Q","U","E">>

Directions == {"N", "S", "E", "W"}

Max(a, b) == IF a >= b THEN a ELSE b
Min(a, b) == IF a <= b THEN a ELSE b

Range(s) == {s[i] : i \in 1..Len(s)}

(* Settings.load_dictionary: keep the words no longer than the larger side *)
load_dictionary(file) ==
    LET max_length == Max(grid_width, grid_height)
    IN  SelectSeq(file, LAMBDA word : Len(word) <= max_length)

(* Settings.empty_grid *)
empty_grid == [r \in 0..(grid_height - 1) |-> [c \in 0..(grid_width - 1) |-> filler]]

(* calculate_seed: the first return statement *)
calculate_seed == [letter |-> "A", x |-> 5, y |-> 5]

(* Python list subscript: i in [0,n) is itself, i in [-n,0) counts from   *)
(* the end, anything else raises IndexError (-1 here).                     *)
PyIndex(i, n) ==
    IF 0 <= i /\ i < n THEN i
    ELSE IF -n <= i /\ i < 0 THEN n + i
    ELSE -1

(* one step of a word in direction d *)
StepX(d) == IF d = "E" THEN 1 ELSE IF d = "W" THEN -1 ELSE 0
StepY(d) == IF d = "S" THEN 1 ELSE IF d = "N" THEN -1 ELSE 0

(* ---------------------- fill_grid_from_wordlist ------------------------ *)
(* The state of the placement walk.  writes records every assignment      *)
(* grid[y][x] = letter with the subscripts as the code computed them,      *)
(* wrapped records that a negative subscript was used.                     *)
FillStart(sd) ==
    LET row == PyIndex(sd.y, grid_height)
        col == PyIndex(sd.x, grid_width)
    IN  IF row = -1 \/ col = -1
        THEN [status |-> "IndexError", x |-> sd.x, y |-> sd.y,
              letter |-> sd.letter, grid |-> empty_grid, writes |-> <<>>,
              wrapped |-> FALSE]
        ELSE [status |-> "ok", x |-> sd.x, y |-> sd.y, letter |-> sd.letter,
              grid |-> [empty_grid EXCEPT ![row][col] = sd.letter],
              writes |-> << <<sd.x, sd.y, sd.letter>> >>,
              wrapped |-> (sd.x < 0 \/ sd.y < 0)]

(* index > 0 and grid[y][x] not in [Settings.filler, letter] *)
Clashes_never(cell, letter, index) == FALSE
Clashes(cell, letter, index) == index > 0 /\ cell \notin {filler, letter}

(* body of the inner loop for the letter at position index (0-based) *)
FillLetter(st, word, d, index) ==
    LET letter == word[index + 1]
        row == PyIndex(st.y, grid_height)
        col == PyIndex(st.x, grid_width)
    IN  IF row = -1 \/ col = -1
        THEN [st EXCEPT !.status = "IndexError"]
        ELSE IF Clashes(st.grid[row][col], letter, index)
        THEN [st EXCEPT !.status = "clash",
                        !.wrapped = (@ \/ st.x < 0 \/ st.y < 0)]
        ELSE [st EXCEPT
                !.grid[row][col] = letter,
                !.letter = letter,
                !.writes = Append(@, <<st.x, st.y, letter>>),
                !.wrapped = (@ \/ st.x < 0 \/ st.y < 0),
                !.x = IF index < Len(word) - 1 THEN @ + StepX(d) ELSE @,
                !.y = IF index < Len(word) - 1 THEN @ + StepY(d) ELSE @]

RECURSIVE FillWord(_, _, _, _)
FillWord(st, word, d, index) ==
    IF st.status # "ok" \/ index >= Len(word) THEN st
    ELSE FillWord(FillLetter(st, word, d, index), word, d, index + 1)

RECURSIVE FillList(_, _, _)
FillList(st, wl, k) ==
    IF st.status # "ok" \/ k > Len(wl) THEN st
    ELSE FillList(FillWord(st, wl[k][1], wl[k][2], 0), wl, k + 1)

fill_grid_from_wordlist(sd, wl) == FillList(FillStart(sd), wl, 1)

(* ------------------------------ validate ------------------------------- *)
(* word[0][0] != last_letter, negated *)
StartsWithLast_any(word, last_letter) == TRUE
StartsWithLast(word, last_letter) == word[1] = last_letter

(* 0 <= x <= Settings.grid_width - 1 and the same test for y *)
InGridX_upper(x) == x <= grid_width - 1
InGridX(x) == 0 <= x /\ x <= grid_width - 1
InGridY(y) == 0 <= y /\ y <= grid_height - 1

RECURSIVE ValidateLoop(_, _, _, _, _, _)
ValidateLoop(dict, wl, k, last_letter, x, y) ==
    IF k > Len(wl) THEN "passed"
    ELSE LET word == wl[k][1]
             d == wl[k][2]
             nx == x + StepX(d) * (Len(word) - 1)
             ny == y + StepY(d) * (Len(word) - 1)
         IN  IF word \notin Range(dict) THEN "NotInDictionary"
             ELSE IF Len(word) = 0 THEN "IndexError"
             ELSE IF ~StartsWithLast(word, last_letter) THEN "WrongStartLetter"
             ELSE IF ~InGridX(nx) THEN "OutOfBounds"
             ELSE IF ~InGridY(ny) THEN "OutOfBounds"
             ELSE ValidateLoop(dict, wl, k + 1, word[Len(word)], nx, ny)

(* len(wordlist) == len(set(repeatwordlist)) *)
NoRepeat_entries(wl) ==
    Len(wl) = Cardinality({wl[i] : i \in 1..Len(wl)})
NoRepeat_off(wl) == TRUE
NoRepeat(wl) ==
    Len(wl) = Cardinality({wl[i][1] : i \in 1..Len(wl)})

validate_repeat_first(dict, sd, wl) ==
    LET loop == ValidateLoop(dict, wl, 1, sd.letter, sd.x, sd.y)
    IN  IF ~NoRepeat(wl) THEN "DuplicateWord"
        ELSE IF loop # "passed" THEN loop
        ELSE LET fill == fill_grid_from_wordlist(sd, wl)
             IN  IF fill.status = "clash" THEN "ClashViolation"
                 ELSE IF fill.status = "IndexError" THEN "IndexError"
                 ELSE "Ok"

(* the loop, the repeat test and the placement, in that order *)
validate(dict, sd, wl) ==
    LET loop == ValidateLoop(dict, wl, 1, sd.letter, sd.x, sd.y)
    IN  IF loop # "passed" THEN loop
        ELSE IF ~NoRepeat(wl) THEN "DuplicateWord"
        ELSE LET fill == fill_grid_from_wordlist(sd, wl)
             IN  IF fill.status = "clash" THEN "ClashViolation"
                 ELSE IF fill.status = "IndexError" THEN "IndexError"
                 ELSE "Ok"

(* calculate_score *)
RECURSIVE calculate_score(_)
calculate_score(wl) ==
    IF wl = <<>> THEN 0 ELSE Len(Head(wl)[1]) + calculate_score(Tail(wl))

(* ------------------------------ show_hint ------------------------------ *)
Reverse(s) == [i \in 1..Len(s) |-> s[Len(s) + 1 - i]]

(* mask[index] == filler keeps the word's letter, else the mask's letter *)
(* (a mask shorter than the word makes mask[index] raise IndexError)     *)
overlay_blind(word, mask) == word
overlay(word, mask) ==
    IF Len(word) > Len(mask) THEN <<"IndexError">>
    ELSE [i \in 1..Len(word) |-> IF mask[i] = filler THEN word[i] ELSE mask[i]]

(* Python slices s[a:] and s[:b]: a negative bound counts from the end,   *)
(* bounds are clamped to the sequence                                      *)
PyBound(i, n) == IF i < 0 THEN Max(n + i, 0) ELSE Min(i, n)
PyFrom(s, a) == SubSeq(s, PyBound(a, Len(s)) + 1, Len(s))
PyTo(s, b) == SubSeq(s, 1, PyBound(b, Len(s)))

(* word.startswith(last_letter) *)
startswith(word, last_letter) == Len(word) >= 1 /\ word[1] = last_letter

(* sorted(words, key=len, reverse=True): stable, longest first *)
StaysBefore_strict(a, b) == Len(a) > Len(b)
StaysBefore(a, b) == Len(a) >= Len(b)

RECURSIVE InsertByLen(_, _)
InsertByLen(sorted, word) ==
    IF sorted = <<>> THEN <<word>>
    ELSE IF StaysBefore(Head(sorted), word)
         THEN <<Head(sorted)>> \o InsertByLen(Tail(sorted), word)
         ELSE <<word>> \o sorted

RECURSIVE SortedByLenDesc(_)
SortedByLenDesc(words) ==
    IF words = <<>> THEN <<>>
    ELSE InsertByLen(SortedByLenDesc(SubSeq(words, 1, Len(words) - 1)),
                     words[Len(words)])

(* one test of the hint loop: len(word) <= max and overlay(..) == word *)
HintTest(word, max, mask) ==
    IF ~(Len(word) <= max) THEN "no"
    ELSE IF overlay(word, mask) = <<"IndexError">> THEN "IndexError"
    ELSE IF overlay(word, mask) = word THEN "yes"
    ELSE "no"

(* the four tests of the hint loop, first hit wins; m holds the four      *)
(* maxima and the four masks                                               *)
HintFor(word, m) ==
    LET n == HintTest(word, m.n_max, m.n_mask)
        s == HintTest(word, m.s_max, m.s_mask)
        w == HintTest(word, m.w_max, m.w_mask)
        e == HintTest(word, m.e_max, m.e_mask)
    IN  IF n # "no" THEN (IF n = "yes" THEN "North" ELSE n)
        ELSE IF s # "no" THEN (IF s = "yes" THEN "South" ELSE s)
        ELSE IF w # "no" THEN (IF w = "yes" THEN "West" ELSE w)
        ELSE IF e # "no" THEN (IF e = "yes" THEN "East" ELSE e)
        ELSE "none"

RECURSIVE HintLoop(_, _, _, _)
HintLoop(ws, k, used_words, m) ==
    IF k > Len(ws) THEN <<>>
    ELSE LET word == ws[k]
             rest == HintLoop(ws, k + 1, used_words, m)
             h == HintFor(word, m)
         IN  IF word \in used_words THEN rest
             ELSE IF h # "none" THEN << <<word, h>> >> \o rest
             ELSE rest

(* hints[:20] *)
TopHints(hints) == SubSeq(hints, 1, Min(HintCap, Len(hints)))

(* show_hint.  hints is the whole list, shown what is printed, nofit    *)
(* the "Cannot find words" line; status is IndexError when a subscript    *)
(* raised before anything was printed.                                     *)
show_hint(dict, sd, wl) ==
    LET fill == fill_grid_from_wordlist(sd, wl)
        last_x == fill.x
        last_y == fill.y
        last_letter == fill.letter
        grid == fill.grid
        n_max == last_y + 1
        s_max == grid_height - last_y
        w_max == last_x + 1
        e_max == grid_width - last_x
        r == PyIndex(last_y, grid_height)
        c == PyIndex(last_x, grid_width)
        row == [i \in 1..grid_width |-> grid[r][i - 1]]
        e_mask == PyFrom(row, last_x)
        w_mask == Reverse(PyTo(row, w_max))
        v_line == [i \in 1..grid_height |-> grid[i - 1][c]]
        n_mask == Reverse(PyTo(v_line, n_max))
        s_mask == PyFrom(v_line, last_y)
        words == SelectSeq(dict, LAMBDA word : startswith(word, last_letter))
        used_words == {wl[i][1] : i \in 1..Len(wl)}
        m == [n_max |-> n_max, s_max |-> s_max, w_max |-> w_max,
              e_max |-> e_max, n_mask |-> n_mask, s_mask |-> s_mask,
              w_mask |-> w_mask, e_mask |-> e_mask]
        hints == HintLoop(SortedByLenDesc(words), 1, used_words, m)
    IN  IF fill.status # "ok" \/ r = -1 \/ c = -1
           \/ \E i \in 1..Len(hints) : hints[i][2] = "IndexError"
        THEN [status |-> "IndexError", hints |-> <<>>, shown |-> <<>>,
              nofit |-> FALSE]
        ELSE [status |-> "ok", hints |-> hints, shown |-> TopHints(hints),
              nofit |-> (Len(hints) = 0)]

NoHint == [status |-> "none", hints |-> <<>>, shown |-> <<>>, nofit |-> FALSE]
NoFill == [status |-> "none", x |-> 0, y |-> 0, letter |-> filler,
           grid |-> empty_grid, writes |-> <<>>, wrapped |-> FALSE]

(* ------------------------- main: the command loop ---------------------- *)
SessionFile == <<APE, EPA, ELF, AREA, A1, LONG>>

(* what the player can type after the prompt (never empty, never Q or !) *)
Inputs == {Tail(APE), Tail(EPA), Tail(ELF), Tail(AREA), Tail(APT)}
TypedDirections == Directions \cup {"X"}

(* last_letter of the prompt *)
PromptLetter(sd, wl) ==
    IF Len(wl) > 0 THEN wl[Len(wl)][1][Len(wl[Len(wl)][1])] ELSE sd.letter

(* wordlist = temp_wordlist is reached only when validate did not raise *)
Commit_always(old, temp, res) == temp
Commit(old, temp, res) == IF res = "Ok" THEN temp ELSE old

InitSession ==
    /\ seed = calculate_seed
    /\ dictionary = load_dictionary(SessionFile)
    /\ wordlist = <<>>
    /\ cmd = "start"
    /\ temp_wordlist = <<>>
    /\ result = "none"
    /\ placed = fill_grid_from_wordlist(seed, <<>>)
    /\ hintOut = NoHint
    /\ running = TRUE

(* a word and a valid direction are typed *)
Submit(inp, direction) ==
    /\ running
    /\ direction \in Directions
    /\ Len(wordlist) < MaxChain
    /\ LET new_word == <<PromptLetter(seed, wordlist)>> \o inp
           temp == Append(wordlist, <<new_word, direction>>)
           res == validate(dictionary, seed, temp)
       IN  /\ cmd' = "submit"
           /\ temp_wordlist' = temp
           /\ result' = res
           /\ wordlist' = Commit(wordlist, temp, res)
    /\ placed' = fill_grid_from_wordlist(seed, wordlist')
    /\ UNCHANGED <<seed, dictionary, hintOut, running>>

(* a word and something that is not N, S, E or W are typed *)
BadDirection(inp, direction) ==
    /\ running
    /\ direction \notin Directions
    /\ cmd' = "baddir"
    /\ placed' = fill_grid_from_wordlist(seed, wordlist)
    /\ UNCHANGED <<seed, dictionary, wordlist, temp_wordlist, result,
                   hintOut, running>>

(* "!" is typed *)
Hint ==
    /\ running
    /\ cmd' = "hint"
    /\ hintOut' = show_hint(dictionary, seed, wordlist)
    /\ placed' = fill_grid_from_wordlist(seed, wordlist)
    /\ UNCHANGED <<seed, dictionary, wordlist, temp_wordlist, result, running>>

(* "Q" is typed *)
Quit ==
    /\ running
    /\ cmd' = "quit"
    /\ running' = FALSE
    /\ UNCHANGED <<seed, dictionary, wordlist, temp_wordlist, result,
                   placed, hintOut>>

Next ==
    \/ \E inp \in Inputs, direction \in TypedDirections : Submit(inp, direction)
    \/ \E inp \in Inputs, direction \in TypedDirections : BadDirection(inp, direction)
    \/ Hint
    \/ Quit

Spec == InitSession /\ [][Next]_vars

(* --------------- the functions applied to arbitrary chains ------------- *)
HintFile == <<APE, EPA, ELF, AREA, A1, LONG, APEX, AWAY, ANT,
              ANTIQUE, ABSOLUTELY, APERTUR,
              <<"A","B">>, <<"A","C">>, <<"A","D">>, <<"A","F">>,
              <<"A","G">>, <<"A","H">>, <<"A","I">>, <<"A","J">>,
              <<"A","K">>, <<"A","L">>, <<"A","M">>, <<"A","N">>,
              <<"A","O">>, <<"A","Q">>, <<"A","S">>, <<"A","U">>,
              <<"A","V">> >>

ProbeSeeds == {[letter |-> "A", x |-> 5, y |-> 5],
               [letter |-> "A", x |-> 0, y |-> 0],
               [letter |-> "A", x |-> 9, y |-> 8],
               [letter |-> "A", x |-> 3, y |-> 5]}
ProbeWords == {APE, EPA, ELF, AREA, APT, A1}

InitProbe ==
    /\ seed \in ProbeSeeds
    /\ dictionary = load_dictionary(HintFile)
    /\ wordlist = <<>>
    /\ cmd = "start"
    /\ temp_wordlist = <<>>
    /\ result = "none"
    /\ placed = NoFill
    /\ hintOut = NoHint
    /\ running = TRUE

(* validate and fill_grid_from_wordlist are called on the chain extended  *)
(* by an arbitrary entry; show_hint is called when the chain is accepted. *)
Probe(word, direction) ==
    /\ Len(temp_wordlist) < MaxProbeLen
    /\ temp_wordlist' = Append(temp_wordlist, <<word, direction>>)
    /\ cmd' = "probe"
    /\ result' = validate(dictionary, seed, temp_wordlist')
    /\ placed' = fill_grid_from_wordlist(seed, temp_wordlist')
    /\ hintOut' = IF result' = "Ok"
                  THEN show_hint(dictionary, seed, temp_wordlist')
                  ELSE NoHint
    /\ UNCHANGED <<seed, dictionary, wordlist, running>>

NextProbe == \E word \in ProbeWords, direction \in Directions : Probe(word, direction)

SpecProbe == InitProbe /\ [][NextProbe]_vars

(* ======================= reference definitions ========================= *)
InGrid(x, y) == 0 <= x /\ x < grid_width /\ 0 <= y /\ y < grid_height

WordsOf(wl) == {wl[i][1] : i \in 1..Len(wl)}
Front(wl) == SubSeq(wl, 1, Len(wl) - 1)

(* the cursor before word k: the seed moved by len - 1 per earlier word *)
RECURSIVE RefCursor(_, _, _)
RefCursor(sd, wl, k) ==
    IF k <= 1 THEN <<sd.x, sd.y>>
    ELSE LET c == RefCursor(sd, wl, k - 1)
             w == wl[k - 1][1]
             d == wl[k - 1][2]
         IN  <<c[1] + StepX(d) * (Len(w) - 1), c[2] + StepY(d) * (Len(w) - 1)>>

(* the cell of letter i (from 0) of word k *)
RefCell(sd, wl, k, i) ==
    LET c == RefCursor(sd, wl, k)
    IN  <<c[1] + StepX(wl[k][2]) * i, c[2] + StepY(wl[k][2]) * i>>

RefLastLetter(sd, wl, k) ==
    IF k <= 1 THEN sd.letter ELSE wl[k - 1][1][Len(wl[k - 1][1])]

RefNotInDict(dict, wl, k) == \A j \in 1..Len(dict) : dict[j] # wl[k][1]
RefWrongStart(sd, wl, k) == wl[k][1][1] # RefLastLetter(sd, wl, k)
RefEndOutside(sd, wl, k) ==
    LET c == RefCursor(sd, wl, k + 1) IN ~InGrid(c[1], c[2])
RefWordBad(dict, sd, wl, k) ==
    RefNotInDict(dict, wl, k) \/ RefWrongStart(sd, wl, k) \/ RefEndOutside(sd, wl, k)
RefHasRepeat(wl) == \E i, j \in 1..Len(wl) : i < j /\ wl[i][1] = wl[j][1]

(* the verdict the priority order prescribes; clashed says whether the    *)
(* placement walk met a differing letter                                   *)
RefVerdict(dict, sd, wl, clashed) ==
    IF \E k \in 1..Len(wl) : RefWordBad(dict, sd, wl, k)
    THEN LET k == CHOOSE m \in 1..Len(wl) :
                     /\ RefWordBad(dict, sd, wl, m)
                     /\ \A n \in 1..(m - 1) : ~RefWordBad(dict, sd, wl, n)
         IN  IF RefNotInDict(dict, wl, k) THEN "NotInDictionary"
             ELSE IF RefWrongStart(sd, wl, k) THEN "WrongStartLetter"
             ELSE "OutOfBounds"
    ELSE IF RefHasRepeat(wl) THEN "DuplicateWord"
    ELSE IF clashed THEN "ClashViolation"
    ELSE "Ok"

Probed == cmd = "probe"
Accepted == cmd = "probe" /\ result = "Ok"

(* ============================== claims ================================= *)

(* C1: bounds safety.  For every chain validate accepts, the placement    *)
(* walk completes and every cell it writes, for every letter of every     *)
(* word and for the seed, lies in [0,width) x [0,height).                  *)
C1_BoundsSafety ==
    Accepted =>
        /\ placed.status = "ok"
        /\ Len(placed.writes) = 1 + calculate_score(temp_wordlist)
        /\ \A i \in 1..Len(placed.writes) :
              InGrid(placed.writes[i][1], placed.writes[i][2])

(* an accepted chain of two words from the corner seed with a word of at  *)
(* least three letters, so that intermediate letters exist                 *)
C1_Witness ==
    /\ Accepted
    /\ seed.x = 0 /\ seed.y = 0
    /\ Len(temp_wordlist) = 2
    /\ \E k \in 1..2 : Len(temp_wordlist[k][1]) >= 3

(* C2: clash-free overlap.  For every accepted chain the final grid holds, *)
(* at every cell written (seed and index 0 of each word included), the     *)
(* letter of every write made there.  A candidate whose last word meets a  *)
(* different letter on an occupied cell is rejected, with ClashViolation   *)
(* when the per-word checks and the repeat check pass.                      *)
C2_WouldClash ==
    /\ Probed
    /\ Len(temp_wordlist) >= 1
    /\ validate(dictionary, seed, Front(temp_wordlist)) = "Ok"
    /\ LET k == Len(temp_wordlist)
           prior == fill_grid_from_wordlist(seed, Front(temp_wordlist)).grid
       IN  \E i \in 0..(Len(temp_wordlist[k][1]) - 1) :
              LET c == RefCell(seed, temp_wordlist, k, i)
              IN  /\ InGrid(c[1], c[2])
                  /\ prior[c[2]][c[1]] \notin {filler, temp_wordlist[k][1][i + 1]}

Continuous(sd, wl) ==
    \A k \in 1..Len(wl) :
       wl[k][1][1] = (IF k = 1 THEN sd.letter ELSE wl[k - 1][1][Len(wl[k - 1][1])])

C3_Continuity ==
    /\ Continuous(seed, wordlist)
    /\ Accepted => Continuous(seed, temp_wordlist)

C3_Witness ==
    /\ Accepted
    /\ Len(temp_wordlist) = 2
    /\ temp_wordlist[1][1][1] # temp_wordlist[2][1][1]

(* C4: no duplicates.  In every chain validate accepts, and in the         *)
(* session's canonical chain, the words are pairwise distinct whatever     *)
(* their directions.                                                        *)
Distinct(wl) ==
    \A i, j \in 1..Len(wl) : i # j => wl[i][1] # wl[j][1]

C4_NoDuplicates ==
    /\ Distinct(wordlist)
    /\ Accepted => Distinct(temp_wordlist)

(* a chain rejected for repeating a word in another direction, next to    *)
(* which accepted chains of two words exist                                 *)
C4_Witness ==
    /\ Probed
    /\ result = "DuplicateWord"
    /\ temp_wordlist[1][1] = temp_wordlist[2][1]
    /\ temp_wordlist[1][2] # temp_wordlist[2][2]

(* C5: violation priority.  validate reports the verdict of the first     *)
(* violation: left to right NotInDictionary, WrongStartLetter, OutOfBounds *)
(* per word, then DuplicateWord, then ClashViolation.                       *)
C5_ViolationPriority ==
    Probed =>
        result = RefVerdict(dictionary, seed, temp_wordlist,
                            placed.status = "clash")

(* an out-of-bounds word that also repeats an earlier word *)
C5_Witness ==
    /\ Probed
    /\ result = "OutOfBounds"
    /\ RefHasRepeat(temp_wordlist)

(* C6 as stated: a submitted word that already occurs in the accepted      *)
(* chain is rejected with the reason DuplicateWord.                         *)
DupSubmitted ==
    /\ cmd = "submit"
    /\ Len(temp_wordlist) >= 2
    /\ temp_wordlist[Len(temp_wordlist)][1] \in WordsOf(Front(temp_wordlist))

C6_Original == DupSubmitted => result = "DuplicateWord"

(* C6 amended: such a submission is always rejected; the reason is         *)
(* DuplicateWord unless the word fails a per-word check first, a wrong      *)
(* start letter or an endpoint outside the grid, which is then the reason. *)
C6_DuplicateSubmission ==
    DupSubmitted =>
        /\ wordlist = Front(temp_wordlist)
        /\ result =
             (IF RefWrongStart(seed, temp_wordlist, Len(temp_wordlist))
              THEN "WrongStartLetter"
              ELSE IF RefEndOutside(seed, temp_wordlist, Len(temp_wordlist))
              THEN "OutOfBounds"
              ELSE "DuplicateWord")

C6_Witness == DupSubmitted /\ result = "DuplicateWord"

(* C7: replace-on-success.  The canonical chain changes only in a submit  *)
(* that validate accepts, and then to the old chain with the submitted     *)
(* entry appended; every other step leaves it as it was.                    *)
C7_ReplaceOnSuccess ==
    [][IF cmd' = "submit" /\ result' = "Ok"
       THEN /\ wordlist' = temp_wordlist'
            /\ Len(wordlist') = Len(wordlist) + 1
            /\ Front(wordlist') = wordlist
       ELSE wordlist' = wordlist]_vars

(* a rejected submission after an accepted one *)
C7_Witness ==
    /\ cmd = "submit"
    /\ result \notin {"Ok", "none"}
    /\ Len(wordlist) >= 1
    /\ temp_wordlist # wordlist

(* C8 as stated: placement called directly on a chain with a letter whose *)
(* cell is outside the grid fails with a bounds violation and uses no      *)
(* out-of-range subscript.                                                  *)
SomeCellOutside ==
    \E k \in 1..Len(temp_wordlist) :
       \E i \in 0..(Len(temp_wordlist[k][1]) - 1) :
          LET c == RefCell(seed, temp_wordlist, k, i)
          IN  ~InGrid(c[1], c[2])

C8_DefensiveGuard ==
    (Probed /\ SomeCellOutside) =>
        /\ placed.status \in {"BoundsViolation", "clash"}
        /\ ~placed.wrapped

(* C9: hint result shape.  For an accepted chain the printed hints are the *)
(* first 20 of: the dictionary words starting with the end letter and not  *)
(* in the chain, longest first and dictionary order among equal lengths,   *)
(* each with the first of North, South, West, East in which it is no       *)
(* longer than the cells from the cursor to the edge and meets only filler *)
(* or its own letters; words fitting nowhere are left out.                  *)
RefDirNames == <<"North", "South", "West", "East">>
RefDX(name) == IF name = "East" THEN 1 ELSE IF name = "West" THEN -1 ELSE 0
RefDY(name) == IF name = "South" THEN 1 ELSE IF name = "North" THEN -1 ELSE 0

RefFits(grid, cx, cy, word, name) ==
    \A i \in 0..(Len(word) - 1) :
       LET x == cx + RefDX(name) * i
           y == cy + RefDY(name) * i
       IN  InGrid(x, y) /\ grid[y][x] \in {filler, word[i + 1]}

RefFirstDir(grid, cx, cy, word) ==
    IF \E n \in 1..4 : RefFits(grid, cx, cy, word, RefDirNames[n])
    THEN RefDirNames[CHOOSE n \in 1..4 :
                        /\ RefFits(grid, cx, cy, word, RefDirNames[n])
                        /\ \A m \in 1..(n - 1) :
                              ~RefFits(grid, cx, cy, word, RefDirNames[m])]
    ELSE "none"

(* the words of length len, then those of the shorter lengths *)
RECURSIVE RefByLength(_, _)
RefByLength(words, len) ==
    IF len < 1 THEN <<>>
    ELSE SelectSeq(words, LAMBDA w : Len(w) = len) \o RefByLength(words, len - 1)

RECURSIVE RefTag(_, _, _, _)
RefTag(words, grid, cx, cy) ==
    IF words = <<>> THEN <<>>
    ELSE LET d == RefFirstDir(grid, cx, cy, Head(words))
             rest == RefTag(Tail(words), grid, cx, cy)
         IN  IF d = "none" THEN rest ELSE << <<Head(words), d>> >> \o rest

RefHints(dict, sd, wl, grid) ==
    LET c == RefCursor(sd, wl, Len(wl) + 1)
        last == RefLastLetter(sd, wl, Len(wl) + 1)
        cands == SelectSeq(dict, LAMBDA w : Len(w) >= 1 /\ w[1] = last
                                            /\ w \notin WordsOf(wl))
    IN  RefTag(RefByLength(cands, Max(grid_width, grid_height)), grid, c[1], c[2])

RefTake(s, n) == [i \in 1..(IF Len(s) < n THEN Len(s) ELSE n) |-> s[i]]

C9_HintShape ==
    Accepted =>
        /\ hintOut.status = "ok"
        /\ hintOut.shown = RefTake(RefHints(dictionary, seed, temp_wordlist,
                                         placed.grid), HintCap)

(* more than 20 words fit, and not all of them to the North *)
C9_Witness ==
    /\ Accepted
    /\ Len(hintOut.hints) > HintCap
    /\ \E i \in 1..Len(hintOut.shown) : hintOut.shown[i][2] # "North"

(* C10: hint/validator agreement.  For an accepted chain a dictionary word *)
(* is among the hints (before the cap) exactly when appending it in one of *)
(* the four directions passes validate, the direction of a hint is one     *)
(* that passes, and "Cannot find words" is printed exactly when no         *)
(* dictionary word passes in any direction.                                 *)
DirCode(name) ==
    IF name = "North" THEN "N" ELSE IF name = "South" THEN "S"
    ELSE IF name = "West" THEN "W" ELSE "E"

Playable(word, d) ==
    validate(dictionary, seed, Append(temp_wordlist, <<word, d>>)) = "Ok"

C10_HintAgreesWithValidate ==
    Accepted =>
        /\ hintOut.status = "ok"
        /\ \A j \in 1..Len(dictionary) :
              (\E i \in 1..Len(hintOut.hints) : hintOut.hints[i][1] = dictionary[j])
                 <=> (\E d \in Directions : Playable(dictionary[j], d))
        /\ \A i \in 1..Len(hintOut.hints) :
              Playable(hintOut.hints[i][1], DirCode(hintOut.hints[i][2]))
        /\ hintOut.nofit <=>
              ~(\E j \in 1..Len(dictionary), d \in Directions :
                   Playable(dictionary[j], d))

(* a word that fits by length only where the grid already holds another   *)
(* letter is left out, while a word agreeing with the grid is hinted there *)
C10_Witness ==
    /\ Accepted
    /\ \E i \in 1..Len(hintOut.hints) :
          hintOut.hints[i] = <<APERTUR, "East">>
    /\ \A i \in 1..Len(hintOut.hints) : hintOut.hints[i][1] # ANTIQUE

====
